---- MODULE Spec2Model ----
(***************************************************************************)
(* Co-op management application (src/app.py).                              *)
(*                                                                         *)
(* Two specifications share the variables below.                           *)
(*   EvalSpec : the eligibility evaluator check_coop_eligibility applied   *)
(*              to every student record and position record of a bounded   *)
(*              domain.                                                    *)
(*   Spec     : the request handlers that change the database (register,   *)
(*              login, logout, create_position, position_detail,           *)
(*              view_applicants in its two commits) started from the       *)
(*              sample data of init_db.                                    *)
(*                                                                         *)
(* Python None is the empty tuple <<>>; a present value v is <<v>>.        *)
(* A GPA is held in tenths of a grade point (3.1 is 31).                   *)
(***************************************************************************)
EXTENDS Integers, Sequences, FiniteSets, TLC

VARIABLES
    student,        \* the User object bound to the evaluator's first argument
    position,       \* the Position object bound to its second argument
    result,         \* outcome of the latest call of the evaluator, or None
    users,          \* table user: sequence of rows, id = index
    positions,      \* table position: sequence of rows, id = index
    applications,   \* table application: sequence of rows, id = index
    current_user,   \* id of the logged-in user of the requesting session, or None
    pending,        \* view_applicants request between its two commits, or None
    outbox          \* the latest simulated e-mail printed, or None

vars == <<student, position, result, users, positions, applications,
          current_user, pending, outbox>>

evalVars == <<student, position, result>>
appVars == <<users, positions, applications, current_user, pending, outbox>>

(***************************************************************************)
(* Bounds of the model.                                                    *)
(***************************************************************************)
MaxGpa == 31
MaxSemesters == 3
MaxWeeks == 8
MaxHours == 24
MaxUsers == 5
MaxPositions == 3
MaxApplications == 2

(***************************************************************************)
(* Thresholds of the evaluator.                                            *)
(***************************************************************************)
GpaMin == 20
WeeksMin == 7
TotalHoursMin == 140
TransferSemestersMin == 1
NonTransferSemestersMin == 2

None == <<>>
Some(v) == <<v>>
IsNone(x) == x = None
Val(x) == x[1]

(***************************************************************************)
(* str(int) as used by the f-strings of the reason messages.               *)
(***************************************************************************)
Digit(d) ==
    CASE d = 0 -> "0" [] d = 1 -> "1" [] d = 2 -> "2" [] d = 3 -> "3"
      [] d = 4 -> "4" [] d = 5 -> "5" [] d = 6 -> "6" [] d = 7 -> "7"
      [] d = 8 -> "8" [] d = 9 -> "9"

RECURSIVE NatStr(_)
NatStr(n) == IF n < 10 THEN Digit(n) ELSE NatStr(n \div 10) \o Digit(n % 10)

IntStr(n) == IF n < 0 THEN "-" \o NatStr(0 - n) ELSE NatStr(n)

GpaReason == "GPA below 2.0"
WeeksReason(weeks) == "Position weeks " \o IntStr(weeks) \o " < 7"
HoursReason(total_hours) == "Total hours " \o IntStr(total_hours) \o " < 140"
TransferReason == "Transfer student must have completed at least 1 semester"
NonTransferReason == "Non-transfer student must have completed at least 2 semesters"

(***************************************************************************)
(* check_coop_eligibility, one operator per block of the function.  A      *)
(* frame holds the two argument objects, the locals eligible and reasons,  *)
(* and the exception raised so far ("none" when there is none).            *)
(***************************************************************************)
Fail(f, reason) ==
    [f EXCEPT !.eligible = FALSE, !.reasons = Append(@, reason)]

Raise(f, exc) == [f EXCEPT !.exception = exc]

\* Python: comparing or multiplying None with a number raises TypeError
NumRaises(a) == IsNone(a)

EnterFrame(s, p) ==
    [student |-> s, position |-> p, eligible |-> TRUE, reasons |-> <<>>,
     exception |-> "none"]

GpaCheckNoNoneGuard(f) ==
    IF f.exception # "none" THEN f
    ELSE IF NumRaises(f.student.gpa) THEN Raise(f, "TypeError")
    ELSE IF Val(f.student.gpa) < GpaMin THEN Fail(f, GpaReason)
    ELSE f

GpaCheckNoFlag(f) ==
    IF f.exception # "none" THEN f
    ELSE IF IsNone(f.student.gpa) \/ Val(f.student.gpa) < GpaMin
         THEN [f EXCEPT !.reasons = Append(@, GpaReason)]
    ELSE f

GpaCheckInclusive(f) ==
    IF f.exception # "none" THEN f
    ELSE IF IsNone(f.student.gpa) \/ Val(f.student.gpa) <= GpaMin
         THEN Fail(f, GpaReason)
    ELSE f

GpaCheck(f) ==
    IF f.exception # "none" THEN f
    ELSE IF IsNone(f.student.gpa) THEN Fail(f, GpaReason)
    ELSE IF NumRaises(f.student.gpa) THEN Raise(f, "TypeError")
    ELSE IF Val(f.student.gpa) < GpaMin THEN Fail(f, GpaReason)
    ELSE f

WeeksCheck(f) ==
    IF f.exception # "none" THEN f
    ELSE IF NumRaises(f.position.weeks) THEN Raise(f, "TypeError")
    ELSE IF Val(f.position.weeks) < WeeksMin
         THEN Fail(f, WeeksReason(Val(f.position.weeks)))
    ELSE f

HoursCheckReportsHours(f) ==
    IF f.exception # "none" THEN f
    ELSE IF NumRaises(f.position.weeks) \/ NumRaises(f.position.hours_per_week)
         THEN Raise(f, "TypeError")
    ELSE LET total_hours == Val(f.position.weeks) * Val(f.position.hours_per_week)
         IN  IF total_hours < TotalHoursMin
             THEN Fail(f, HoursReason(Val(f.position.hours_per_week)))
             ELSE f

HoursCheckFirst(f) ==
    IF f.exception # "none" THEN f
    ELSE IF NumRaises(f.position.weeks) \/ NumRaises(f.position.hours_per_week)
         THEN Raise(f, "TypeError")
    ELSE LET total_hours == Val(f.position.weeks) * Val(f.position.hours_per_week)
         IN  IF total_hours < TotalHoursMin
             THEN [f EXCEPT !.eligible = FALSE,
                            !.reasons = <<HoursReason(total_hours)>> \o @]
             ELSE f

HoursCheckElif(f) ==
    IF f.exception # "none" THEN f
    ELSE IF NumRaises(f.position.weeks) \/ NumRaises(f.position.hours_per_week)
         THEN Raise(f, "TypeError")
    ELSE LET total_hours == Val(f.position.weeks) * Val(f.position.hours_per_week)
         IN  IF Val(f.position.weeks) >= WeeksMin /\ total_hours < TotalHoursMin
             THEN Fail(f, HoursReason(total_hours))
             ELSE f

HoursCheck(f) ==
    IF f.exception # "none" THEN f
    ELSE IF NumRaises(f.position.weeks) \/ NumRaises(f.position.hours_per_week)
         THEN Raise(f, "TypeError")
    ELSE LET total_hours == Val(f.position.weeks) * Val(f.position.hours_per_week)
         IN  IF total_hours < TotalHoursMin
             THEN Fail(f, HoursReason(total_hours))
             ELSE f

\* student.semesters_completed or 0
OrZero(x) == IF IsNone(x) \/ Val(x) = 0 THEN 0 ELSE Val(x)

SemestersCheckBothBranches(f) ==
    IF f.exception # "none" THEN f
    ELSE LET sc == OrZero(f.student.semesters_completed)
             g  == IF sc < TransferSemestersMin THEN Fail(f, TransferReason) ELSE f
         IN  IF sc < NonTransferSemestersMin THEN Fail(g, NonTransferReason) ELSE g

SemestersCheckNoOrZero(f) ==
    IF f.exception # "none" THEN f
    ELSE IF NumRaises(f.student.semesters_completed) THEN Raise(f, "TypeError")
    ELSE LET sc == Val(f.student.semesters_completed)
         IN  IF f.student.is_transfer
             THEN IF sc < TransferSemestersMin THEN Fail(f, TransferReason) ELSE f
             ELSE IF sc < NonTransferSemestersMin THEN Fail(f, NonTransferReason) ELSE f

SemestersCheckStoresSc(f) ==
    IF f.exception # "none" THEN f
    ELSE LET sc == OrZero(f.student.semesters_completed)
             g  == [f EXCEPT !.student.semesters_completed = Some(sc)]
         IN  IF g.student.is_transfer
             THEN IF sc < TransferSemestersMin THEN Fail(g, TransferReason) ELSE g
             ELSE IF sc < NonTransferSemestersMin THEN Fail(g, NonTransferReason) ELSE g

SemestersCheck(f) ==
    IF f.exception # "none" THEN f
    ELSE LET sc == OrZero(f.student.semesters_completed)
         IN  IF f.student.is_transfer
             THEN IF sc < TransferSemestersMin THEN Fail(f, TransferReason) ELSE f
             ELSE IF sc < NonTransferSemestersMin THEN Fail(f, NonTransferReason) ELSE f

\* return eligible, reasons: the value is the pair, or None when the call raised
Return(f) ==
    [exception |-> f.exception,
     value     |-> IF f.exception = "none" THEN <<f.eligible, f.reasons>> ELSE None,
     student   |-> f.student,
     position  |-> f.position]

check_coop_eligibility(s, p) ==
    Return(SemestersCheck(HoursCheck(WeeksCheck(GpaCheck(EnterFrame(s, p))))))

(***************************************************************************)
(* Sample data of init_db.                                                 *)
(***************************************************************************)
UserRow(role, email, gpa, sc, transfer) ==
    [role |-> role, email |-> email, password |-> "password", gpa |-> gpa,
     semesters_completed |-> sc, is_transfer |-> transfer]

PositionRow(employer_id, title, weeks, hours) ==
    [employer_id |-> employer_id, title |-> title, weeks |-> Some(weeks),
     hours_per_week |-> Some(hours), status |-> "open"]

init_db_users ==
    << UserRow("employer", "employer@acme.com", None, None, FALSE),
       UserRow("student", "jack@student.com", Some(31), Some(2), FALSE),
       UserRow("student", "sam@student.com", Some(18), Some(3), FALSE),
       UserRow("faculty", "faculty@umich.edu", None, None, FALSE) >>

init_db_positions ==
    << PositionRow(1, "Software Intern", 8, 20),
       PositionRow(1, "Short Internship", 6, 20) >>

AppInit ==
    /\ users = init_db_users
    /\ positions = init_db_positions
    /\ applications = <<>>
    /\ current_user = None
    /\ pending = None
    /\ outbox = None

(***************************************************************************)
(* Request handlers.  A branch that only flashes a message and redirects   *)
(* (not logged in, wrong role, 404) changes nothing and is the guard of    *)
(* the action.                                                             *)
(***************************************************************************)
\* RegisterForm offers 'student', 'employer' and 'faculty'; the accounts
\* registered here are students (gpa and semesters_completed left NULL)
RegisterRoles == {"student"}
RegisterEmails == {"jack@student.com", "pat@student.com"}
Passwords == {"password", "guess"}
CreateWeeks == {WeeksMin}
CreateHours == {20}
OfferLetters == {None}

\* Model.query.filter_by(...).first(): the id of the first matching row, 0 if none
\* (matching is the set of ids of the rows the filter keeps)
First(matching) ==
    IF matching = {} THEN 0
    ELSE CHOOSE i \in matching : \A j \in matching : i <= j

IsAuthenticated == ~IsNone(current_user)
CurrentRole == users[Val(current_user)].role

register(role, email, pw) ==
    /\ LET ByEmail == {i \in 1..Len(users) : users[i].email = email}
       IN  IF First(ByEmail) # 0
           THEN UNCHANGED users
           ELSE /\ Len(users) < MaxUsers
                /\ users' = Append(users,
                      [role |-> role, email |-> email, password |-> pw,
                       gpa |-> None, semesters_completed |-> None,
                       is_transfer |-> FALSE])
    /\ UNCHANGED <<positions, applications, current_user, pending, outbox, evalVars>>

login_(email, pw) ==
    /\ LET ByEmail == {i \in 1..Len(users) : users[i].email = email}
           u == First(ByEmail)
       IN  IF u # 0 /\ users[u].password = pw
           THEN current_user' = Some(u)
           ELSE UNCHANGED current_user
    /\ UNCHANGED <<users, positions, applications, pending, outbox, evalVars>>

logout ==
    /\ IsAuthenticated
    /\ current_user' = None
    /\ UNCHANGED <<users, positions, applications, pending, outbox, evalVars>>

create_position(title, weeks, hours) ==
    /\ IsAuthenticated
    /\ CurrentRole = "employer"
    /\ weeks >= 1 /\ hours >= 1
    /\ Len(positions) < MaxPositions
    /\ positions' = Append(positions,
                           PositionRow(Val(current_user), title, weeks, hours))
    /\ UNCHANGED <<users, applications, current_user, pending, outbox, evalVars>>

position_detail_no_existing_check(pid) ==
    /\ pid \in 1..Len(positions)
    /\ IsAuthenticated
    /\ CurrentRole = "student"
    /\ Len(applications) < MaxApplications
    /\ applications' = Append(applications,
          [student_id |-> Val(current_user), position_id |-> pid,
           status |-> "applied", offer_letter |-> None])
    /\ UNCHANGED <<users, positions, current_user, pending, outbox, evalVars>>

position_detail(pid) ==
    /\ pid \in 1..Len(positions)
    /\ IsAuthenticated
    /\ CurrentRole = "student"
    /\ LET Mine == {i \in 1..Len(applications) :
                       /\ applications[i].student_id = Val(current_user)
                       /\ applications[i].position_id = pid}
           existing == First(Mine)
       IN  IF existing # 0
           THEN UNCHANGED applications
           ELSE /\ Len(applications) < MaxApplications
                /\ applications' = Append(applications,
                      [student_id |-> Val(current_user), position_id |-> pid,
                       status |-> "applied", offer_letter |-> None])
    /\ UNCHANGED <<users, positions, current_user, pending, outbox, evalVars>>

\* view_applicants, lines 290-308: up to the commit of the selection
view_applicants(pid, sid, offer_letter) ==
    /\ IsNone(pending)
    /\ IsAuthenticated
    /\ pid \in 1..Len(positions)
    /\ CurrentRole = "employer"
    /\ positions[pid].employer_id = Val(current_user)
    /\ sid # 0
    /\ LET Theirs == {i \in 1..Len(applications) :
                         /\ applications[i].student_id = sid
                         /\ applications[i].position_id = pid}
           app_selected == First(Theirs)
           offer == IF IsNone(offer_letter) THEN "" ELSE Val(offer_letter)
       IN  IF app_selected = 0
           THEN UNCHANGED <<applications, positions, pending>>
           ELSE /\ applications' = [applications EXCEPT
                        ![app_selected].status = "selected",
                        ![app_selected].offer_letter = Some(offer)]
                /\ positions' = [positions EXCEPT ![pid].status = "pending"]
                /\ pending' = Some([pid |-> pid, sid |-> sid, app |-> app_selected])
    /\ UNCHANGED <<users, current_user, outbox, evalVars>>

RECURSIVE Join(_, _)
Join(strs, sep) ==
    IF Len(strs) = 0 THEN ""
    ELSE IF Len(strs) = 1 THEN strs[1]
    ELSE strs[1] \o sep \o Join(Tail(strs), sep)

Email(to, title, eligible, reasons) ==
    [to |-> to, subject |-> "Co-op eligibility", selected_for |-> title,
     body |-> IF eligible
              THEN "You are eligible for co-op. Please indicate interest in portal."
              ELSE "However, you are NOT eligible for co-op for these reasons: "
                   \o Join(reasons, "; ")]

view_applicants_notify_reverts ==
    /\ ~IsNone(pending)
    /\ LET req == Val(pending)
           out == check_coop_eligibility(users[req.sid], positions[req.pid])
           rejected == out.exception = "none" /\ ~out.value[1]
       IN  /\ student' = out.student
           /\ position' = out.position
           /\ result' = [exception |-> out.exception, value |-> out.value]
           /\ IF out.exception = "none"
              THEN /\ outbox' = Some(Email(out.student.email, out.position.title,
                                           out.value[1], out.value[2]))
                   /\ users' = [users EXCEPT ![req.sid] = out.student]
                   /\ positions' = [positions EXCEPT ![req.pid] =
                         IF rejected THEN [out.position EXCEPT !.status = "open"]
                         ELSE out.position]
                   /\ applications' = IF rejected
                         THEN [applications EXCEPT ![req.app].status = "rejected"]
                         ELSE applications
              ELSE UNCHANGED <<outbox, users, positions, applications>>
    /\ pending' = None
    /\ UNCHANGED <<current_user>>

\* view_applicants, lines 310-329: the evaluator is queried on the rows
\* reloaded after the commit, the e-mail is printed, and the final commit
\* flushes the two objects the evaluator was given
view_applicants_notify ==
    /\ ~IsNone(pending)
    /\ LET req == Val(pending)
           out == check_coop_eligibility(users[req.sid], positions[req.pid])
       IN  /\ student' = out.student
           /\ position' = out.position
           /\ result' = [exception |-> out.exception, value |-> out.value]
           /\ IF out.exception = "none"
              THEN /\ outbox' = Some(Email(out.student.email, out.position.title,
                                           out.value[1], out.value[2]))
                   /\ users' = [users EXCEPT ![req.sid] = out.student]
                   /\ positions' = [positions EXCEPT ![req.pid] = out.position]
              ELSE UNCHANGED <<outbox, users, positions>>
    /\ pending' = None
    /\ UNCHANGED <<applications, current_user>>

Init ==
    /\ student = None
    /\ position = None
    /\ result = None
    /\ AppInit

Next ==
    \/ \E role \in RegisterRoles, email \in RegisterEmails : register(role, email, "password")
    \/ \E u \in 1..Len(users), pw \in Passwords : login_(users[u].email, pw)
    \/ logout
    \/ \E weeks \in CreateWeeks, hours \in CreateHours :
          create_position("Intern", weeks, hours)
    \/ \E pid \in 1..MaxPositions : position_detail(pid)
    \/ \E pid \in 1..MaxPositions, sid \in 1..MaxUsers, offer \in OfferLetters :
          view_applicants(pid, sid, offer)
    \/ view_applicants_notify

Spec == Init /\ [][Next]_vars

(***************************************************************************)
(* EvalSpec: the evaluator over a bounded domain of records.               *)
(***************************************************************************)
GpaValues == {None} \cup {Some(g) : g \in 0..MaxGpa}
SemesterValues == {None} \cup {Some(n) : n \in 0..MaxSemesters}

StudentRecords ==
    [gpa : GpaValues, semesters_completed : SemesterValues, is_transfer : BOOLEAN]

\* weeks and hours_per_week are nullable=False and the form requires min=1
PositionRecords ==
    [weeks : {Some(w) : w \in 1..MaxWeeks},
     hours_per_week : {Some(h) : h \in 1..MaxHours}]

EvalInit ==
    /\ student \in StudentRecords
    /\ position \in PositionRecords
    /\ result = None
    /\ AppInit

Evaluate ==
    /\ LET out == check_coop_eligibility(student, position)
       IN  /\ student' = out.student
           /\ position' = out.position
           /\ result' = [exception |-> out.exception, value |-> out.value]
    /\ UNCHANGED appVars

EvalNext == Evaluate

EvalSpec == EvalInit /\ [][EvalNext]_vars

(***************************************************************************)
(* Properties of the evaluator (checked under EvalSpec).                   *)
(***************************************************************************)
Called == result # None
Returned == Called /\ result.exception = "none"
Eligible == result.value[1]
Reasons == result.value[2]
HasReason(r) == \E i \in 1..Len(Reasons) : Reasons[i] = r

GpaFails == IsNone(student.gpa) \/ Val(student.gpa) < GpaMin
Weeks == Val(position.weeks)
TotalHours == Val(position.weeks) * Val(position.hours_per_week)
SemestersOrZero ==
    IF IsNone(student.semesters_completed) THEN 0
    ELSE Val(student.semesters_completed)
TenureFails ==
    IF student.is_transfer THEN SemestersOrZero < TransferSemestersMin
    ELSE SemestersOrZero < NonTransferSemestersMin
TenureReason == IF student.is_transfer THEN TransferReason ELSE NonTransferReason

\* C1: the returned eligible flag is true exactly when the returned reasons
\* list is empty.
C1_EligibleIffNoReasons ==
    Returned => (Eligible <=> Reasons = <<>>)

C1_Witness ==
    Returned /\ ~Eligible /\ Len(Reasons) >= 2

\* C2: a student with gpa >= 2.0 and enough semesters for the transfer
\* status, on a position of at least 7 weeks and 140 total hours, gets
\* (true, []).
C2_AllRulesPassGivesEligible ==
    ( /\ Called
      /\ ~IsNone(student.gpa) /\ Val(student.gpa) >= GpaMin
      /\ Weeks >= WeeksMin
      /\ TotalHours >= TotalHoursMin
      /\ ~IsNone(student.semesters_completed)
      /\ IF student.is_transfer
         THEN Val(student.semesters_completed) >= TransferSemestersMin
         ELSE Val(student.semesters_completed) >= NonTransferSemestersMin )
    => (Returned /\ result.value = <<TRUE, <<>> >>)

\* the sample student and position of init_db
C2_Witness ==
    /\ Called
    /\ student = [gpa |-> Some(31), semesters_completed |-> Some(2), is_transfer |-> FALSE]
    /\ position = [weeks |-> Some(8), hours_per_week |-> Some(20)]
    /\ result.value = <<TRUE, <<>> >>

\* C3: no short-circuit: the reason of each of the four rules is in the
\* returned list exactly when that rule's own condition fails, whatever the
\* other rules do.
C3_RulesIndependent ==
    Returned =>
        /\ HasReason(GpaReason) <=> GpaFails
        /\ HasReason(WeeksReason(Weeks)) <=> Weeks < WeeksMin
        /\ HasReason(HoursReason(TotalHours)) <=> TotalHours < TotalHoursMin
        /\ HasReason(TenureReason) <=> TenureFails

\* a GPA of 1.9 on a position that fails the hours rule but not the weeks rule
C3_Witness ==
    /\ Returned
    /\ student.gpa = Some(19)
    /\ Weeks >= WeeksMin /\ TotalHours < TotalHoursMin
    /\ ~TenureFails
    /\ HasReason(GpaReason) /\ HasReason(HoursReason(TotalHours))

\* C4: the reasons come in the order GPA, weeks, total hours, tenure, and
\* none appears twice.
WeeksReasons == [w \in 0..MaxWeeks |-> WeeksReason(w)]
HoursReasons == [t \in 0..(MaxWeeks * MaxHours) |-> HoursReason(t)]

RuleOf(r) ==
    IF r = GpaReason THEN 1
    ELSE IF \E w \in DOMAIN WeeksReasons : r = WeeksReasons[w] THEN 2
    ELSE IF \E t \in DOMAIN HoursReasons : r = HoursReasons[t] THEN 3
    ELSE IF r \in {TransferReason, NonTransferReason} THEN 4
    ELSE 0

C4_ReasonsInCheckOrder ==
    Returned =>
        /\ \A i \in 1..Len(Reasons) : RuleOf(Reasons[i]) # 0
        /\ \A i, j \in 1..Len(Reasons) :
              i < j => RuleOf(Reasons[i]) < RuleOf(Reasons[j])

C4_Witness ==
    /\ Returned
    /\ Reasons = << "GPA below 2.0", "Position weeks 6 < 7", "Total hours 120 < 140",
                    "Non-transfer student must have completed at least 2 semesters" >>

\* C5: the transfer message appears only for a transfer student with fewer
\* than 1 semester, the non-transfer message only for a non-transfer student
\* with fewer than 2, and never both.
C5_OneTenureMessage ==
    Returned =>
        /\ HasReason(TransferReason) =>
              (student.is_transfer /\ SemestersOrZero < TransferSemestersMin)
        /\ HasReason(NonTransferReason) =>
              (~student.is_transfer /\ SemestersOrZero < NonTransferSemestersMin)
        /\ ~(HasReason(TransferReason) /\ HasReason(NonTransferReason))
        /\ Cardinality({i \in 1..Len(Reasons) :
                Reasons[i] \in {TransferReason, NonTransferReason}}) <= 1

C5_Witness ==
    /\ Returned
    /\ student.is_transfer /\ student.semesters_completed = Some(0)
    /\ HasReason(TransferReason)

\* C6: a call with gpa = None has the outcome of the call with any gpa below
\* 2.0 in its place, and a call with semesters_completed = None the outcome
\* of the call with semesters_completed = 0.
Outcome(s, p) ==
    LET out == check_coop_eligibility(s, p)
    IN  [exception |-> out.exception, value |-> out.value]

C6_NullsAreFailingValues ==
    Called =>
        /\ IsNone(student.gpa) =>
              \A g \in 0..(GpaMin - 1) :
                  result = Outcome([student EXCEPT !.gpa = Some(g)], position)
        /\ IsNone(student.semesters_completed) =>
              result = Outcome([student EXCEPT !.semesters_completed = Some(0)],
                               position)

C6_Witness ==
    /\ Returned
    /\ IsNone(student.gpa) /\ IsNone(student.semesters_completed)
    /\ HasReason(GpaReason) /\ HasReason(TenureReason)

\* C7: every call returns a pair (boolean, list of reasons) and raises
\* nothing; a missing gpa or semester count fails its rule.
C7_NoException ==
    Called =>
        /\ result.exception = "none"
        /\ Len(result.value) = 2
        /\ Eligible \in BOOLEAN
        /\ \A i \in 1..Len(Reasons) : RuleOf(Reasons[i]) # 0
        /\ IsNone(student.gpa) => (~Eligible /\ HasReason(GpaReason))
        /\ IsNone(student.semesters_completed) => (~Eligible /\ HasReason(TenureReason))

C7_Witness ==
    /\ Called
    /\ IsNone(student.gpa) /\ IsNone(student.semesters_completed)
    /\ result.exception = "none"
    /\ Len(Reasons) = 2

\* C8: "Position weeks {weeks} < 7" appears iff weeks < 7 and
\* "Total hours {total} < 140" iff weeks * hours_per_week < 140, each with
\* the actual value and no other; for 6 weeks of 20 hours both appear.
C8_DurationReasons ==
    Returned =>
        /\ \A w \in DOMAIN WeeksReasons :
              HasReason(WeeksReasons[w]) <=> (w = Weeks /\ Weeks < WeeksMin)
        /\ \A t \in DOMAIN HoursReasons :
              HasReason(HoursReasons[t]) <=> (t = TotalHours /\ TotalHours < TotalHoursMin)
        /\ (Weeks = 6 /\ Val(position.hours_per_week) = 20) =>
              (HasReason("Position weeks 6 < 7") /\ HasReason("Total hours 120 < 140"))

C8_Witness ==
    /\ Returned
    /\ Weeks = 6 /\ Val(position.hours_per_week) = 20
    /\ HasReason("Position weeks 6 < 7") /\ HasReason("Total hours 120 < 140")
    /\ Eligible = FALSE

\* C9: a call leaves every field of the student record and of the position
\* record as it was before the call.
C9_InputsNotMutated ==
    [][(result' # result) => (student' = student /\ position' = position)]_vars

C9_Witness ==
    /\ Called
    /\ IsNone(student.semesters_completed)
    /\ HasReason(TenureReason)
    /\ student.gpa = Some(MaxGpa)

(***************************************************************************)
(* Properties of the handlers (checked under Spec).                        *)
(***************************************************************************)
SelectionPersisted(apps, poss, req) ==
    /\ apps[req.app].status = "selected"
    /\ apps[req.app].student_id = req.sid
    /\ apps[req.app].position_id = req.pid
    /\ poss[req.pid].status = "pending"

\* the step of view_applicants that commits a selection, and the step that
\* queries the evaluator
SelectStep == IsNone(pending) /\ ~IsNone(pending')
QueryStep == ~IsNone(pending) /\ IsNone(pending')

\* C10: a select-candidate action that finds the application commits the
\* application as 'selected' and the position as 'pending' before it queries
\* the evaluator, and the query leaves both statuses as committed, eligible
\* or not.
C10_VerdictAfterSelectionPersisted ==
    [][ /\ SelectStep =>
              /\ SelectionPersisted(applications', positions', Val(pending'))
              /\ UNCHANGED <<result, outbox>>
        /\ QueryStep =>
              /\ SelectionPersisted(applications, positions, Val(pending))
              /\ SelectionPersisted(applications', positions', Val(pending))
              /\ result' # None
        /\ (result' # result \/ outbox' # outbox) => QueryStep
      ]_vars

\* a selection whose verdict was "not eligible" and is still in place
C10_Witness ==
    /\ IsNone(pending)
    /\ Returned /\ ~Eligible
    /\ ~IsNone(outbox)
    /\ \E a \in 1..Len(applications) :
          /\ applications[a].status = "selected"
          /\ users[applications[a].student_id].email = Val(outbox).to
          /\ positions[applications[a].position_id].status = "pending"

SamePair(a, b) == a.student_id = b.student_id /\ a.position_id = b.position_id

OnePerPair(apps) ==
    \A i, j \in 1..Len(apps) : SamePair(apps[i], apps[j]) => i = j

\* C11: there is at most one Application per (student, position) pair; a step
\* that adds an application adds exactly one, in state 'applied', for a pair
\* that had none, and leaves the existing applications as they were, so an
\* apply by a student who already applied adds nothing.
C11_OneApplicationPerPair ==
    [][ /\ OnePerPair(applications)
        /\ OnePerPair(applications')
        /\ Len(applications') >= Len(applications)
        /\ Len(applications') # Len(applications) =>
              /\ Len(applications') = Len(applications) + 1
              /\ SubSeq(applications', 1, Len(applications)) = applications
              /\ applications'[Len(applications')].status = "applied"
              /\ \A i \in 1..Len(applications) :
                    ~SamePair(applications[i], applications'[Len(applications')])
      ]_vars

\* a logged-in student who has applied to two positions, one of them already
\* selected: a further apply to either finds the existing application
C11_Witness ==
    /\ IsAuthenticated
    /\ CurrentRole = "student"
    /\ Len(applications) = 2
    /\ \A i \in 1..2 : applications[i].student_id = Val(current_user)
    /\ applications[1].position_id # applications[2].position_id
    /\ applications[1].status = "selected"
    /\ ENABLED position_detail(applications[1].position_id)

====
